---- MODULE Spec2Model ----
(***************************************************************************)
(* Model of ude_points_utils.py: the fighter career dataset builder        *)
(* (create_fighter_career_dataset, fighter_stats) and the title-bout       *)
(* classifier (create_title_bouts_datasets).                               *)
(*                                                                         *)
(* A DataFrame is a record [columns, index, rows]: the set of column       *)
(* names, the sequence of index labels and the sequence of rows, a row     *)
(* being a function from column name to cell.  A cell is NaN (<<>>, the    *)
(* missing value: NaN / None / NaT) or Cell(v) (<<v>>).  Column names are  *)
(* the source's.  Of the reoriented statistics and the shared columns the  *)
(* model keeps the ones the operations read by name plus one               *)
(* representative statistic; the omitted ones are handled by the same      *)
(* expression as the kept ones.  Fighter names and event dates are never   *)
(* missing; numeric statistics may be.                                     *)
(*                                                                         *)
(* Spec runs the operations on career tables, SpecTitle on title-bout      *)
(* tables, SpecSchema on tables whose schema has columns outside the       *)
(* helpers' field lists and with the two reorientation helpers called      *)
(* directly, SpecTwice with a caller that keeps a returned career table.   *)
(***************************************************************************)
EXTENDS Integers, Sequences, FiniteSets, TLC

VARIABLES df, tieRank, ret, kept

vars == <<df, tieRank, ret, kept>>

\* ------------------------------------------------------------------ bounds
MaxBouts == 2
MaxDate == 2

\* ------------------------------------------------------------------- cells
NaN == <<>>
Cell(v) == <<v>>
isnull(c) == c = NaN

\* Sub with a missing operand read as 0 (a fillna(0) before the subtraction).
SubFillZero(a, b) ==
  Cell((IF isnull(a) THEN 0 ELSE a[1]) - (IF isnull(b) THEN 0 ELSE b[1]))

\* Numeric subtraction of two cells: NaN propagates.
Sub(a, b) == IF isnull(a) \/ isnull(b) THEN NaN ELSE Cell(a[1] - b[1])

\* ----------------------------------------------------------------- columns
SharedColumns == {"event_date", "event_name", "fight_url", "is_title_bout"}

Side1Columns ==
  {"fighter_1", "fight_result_fighter_1", "W/L_streak_fighter_1",
   "sig_strikes_landed_fighter_1", "fight_day_age (yrs)_fighter_1",
   "Height (m)_fighter_1", "Reach (in)_fighter_1", "is_champion_fighter_1"}

Side2Columns ==
  {"fighter_2", "fight_result_fighter_2", "W/L_streak_fighter_2",
   "sig_strikes_landed_fighter_2", "fight_day_age (yrs)_fighter_2",
   "Height (m)_fighter_2", "Reach (in)_fighter_2", "is_champion_fighter_2"}

InputColumns == SharedColumns \cup Side1Columns \cup Side2Columns

\* The dict keys of extract_fighter_details with the side-1 and side-2
\* column each one reads.
FighterFields ==
  [fighter |-> <<"fighter_1", "fighter_2">>,
   result |-> <<"fight_result_fighter_1", "fight_result_fighter_2">>,
   win_streak |-> <<"W/L_streak_fighter_1", "W/L_streak_fighter_2">>,
   sig_strikes_landed |->
     <<"sig_strikes_landed_fighter_1", "sig_strikes_landed_fighter_2">>,
   age |-> <<"fight_day_age (yrs)_fighter_1", "fight_day_age (yrs)_fighter_2">>]
  @@ ("height (m)" :> <<"Height (m)_fighter_1", "Height (m)_fighter_2">>)
  @@ ("reach (in)" :> <<"Reach (in)_fighter_1", "Reach (in)_fighter_2">>)

\* The dict keys of extract_opponent_details with the side-1 and side-2
\* column each one reads (the opponent's value is the other side's).
OpponentFields ==
  [opponent |-> <<"fighter_1", "fighter_2">>,
   opponent_result |-> <<"fight_result_fighter_1", "fight_result_fighter_2">>,
   opponent_win_streak |-> <<"W/L_streak_fighter_1", "W/L_streak_fighter_2">>,
   opponent_sig_strikes_landed |->
     <<"sig_strikes_landed_fighter_1", "sig_strikes_landed_fighter_2">>,
   opponent_age |->
     <<"fight_day_age (yrs)_fighter_1", "fight_day_age (yrs)_fighter_2">>]
  @@ ("opponent_height (m)" :> <<"Height (m)_fighter_1", "Height (m)_fighter_2">>)
  @@ ("opponent_reach (in)" :> <<"Reach (in)_fighter_1", "Reach (in)_fighter_2">>)

\* -------------------------------------------------------------- DataFrames
RangeIndex(n) == [i \in 1..n |-> i - 1]

EmptyFrame == [columns |-> {}, index |-> <<>>, rows |-> <<>>]

\* Positions of the rows of a frame that satisfy a boolean mask, in order.
RECURSIVE MaskPositions(_, _)
MaskPositions(mask, n) ==
  IF n = 0 THEN <<>>
  ELSE IF mask[n] THEN Append(MaskPositions(mask, n - 1), n)
       ELSE MaskPositions(mask, n - 1)

\* frame[mask].copy(): the rows where the mask holds, with their labels.
BooleanIndex(frame, mask) ==
  LET pos == MaskPositions(mask, Len(frame.rows)) IN
  [columns |-> frame.columns,
   index |-> [k \in 1..Len(pos) |-> frame.index[pos[k]]],
   rows |-> [k \in 1..Len(pos) |-> frame.rows[pos[k]]]]

\* A Series over the frame's index, from its values by position:
\* label -> value.
Series(frame, values) ==
  [l \in {frame.index[i] : i \in 1..Len(frame.index)} |->
     values[CHOOSE i \in 1..Len(frame.index) : frame.index[i] = l]]

\* DataFrame.apply(f, axis=1, result_type='expand'), f returning a dict with
\* the given keys; dicts holds f's result for each row.  On a frame without
\* rows pandas does not call f and returns a copy of the frame, original
\* columns included.
ApplyExpand(frame, dicts, keys) ==
  IF Len(frame.rows) = 0 THEN frame
  ELSE [columns |-> keys, index |-> frame.index, rows |-> dicts]

\* A concatenation that joins row i of a with the rows of b and c counted
\* from the other end.
ConcatColumnsReversed(a, b, c) ==
  [columns |-> a.columns \cup b.columns \cup c.columns,
   index |-> a.index,
   rows |-> [i \in 1..Len(a.rows) |->
               a.rows[i] @@ b.rows[Len(a.rows) + 1 - i]
                         @@ c.rows[Len(a.rows) + 1 - i]]]

\* pd.concat([a, b, c], axis=1) of frames that carry the same index: the
\* rows are joined label by label.
ConcatColumns(a, b, c) ==
  [columns |-> a.columns \cup b.columns \cup c.columns,
   index |-> a.index,
   rows |-> [i \in 1..Len(a.rows) |-> a.rows[i] @@ b.rows[i] @@ c.rows[i]]]

\* frame[cols]: the frame restricted to the listed columns.
SelectColumns(frame, cols) ==
  [columns |-> cols,
   index |-> frame.index,
   rows |-> [i \in 1..Len(frame.rows) |-> [c \in cols |-> frame.rows[i][c]]]]

reset_index(frame) ==
  [frame EXCEPT !.index = RangeIndex(Len(frame.rows))]

\* frame[name] = values (one cell per row, by position).
AssignColumn(frame, name, values) ==
  [columns |-> frame.columns \cup {name},
   index |-> frame.index,
   rows |-> [i \in 1..Len(frame.rows) |->
               [c \in frame.columns \cup {name} |->
                  IF c = name THEN values[i] ELSE frame.rows[i][c]]]]

\* frame.sort_values(by='event_date', ascending=False).  The call does not
\* ask for a stable kind, so the order of rows with equal dates is the sort
\* routine's: rank is the order the build gives to tied positions (the
\* identity rank is the stable order).  Dates are not missing.
SortBefore(frame, rank, i, j) ==
  LET di == frame.rows[i]["event_date"][1]
      dj == frame.rows[j]["event_date"][1]
  IN  di > dj \/ (di = dj /\ rank[i] < rank[j])

\* sort_values without ascending=False: the earliest date first.
sort_values_ascending(frame, rank) ==
  LET n == Len(frame.rows)
      place(i) == 1 + Cardinality({j \in 1..n : SortBefore(frame, rank, i, j)})
      at(k) == CHOOSE i \in 1..n : place(i) = k
  IN  [columns |-> frame.columns,
       index |-> [k \in 1..n |-> frame.index[at(k)]],
       rows |-> [k \in 1..n |-> frame.rows[at(k)]]]

sort_values(frame, rank) ==
  LET n == Len(frame.rows)
      place(i) == 1 + Cardinality({j \in 1..n : SortBefore(frame, rank, j, i)})
      at(k) == CHOOSE i \in 1..n : place(i) = k
  IN  [columns |-> frame.columns,
       index |-> [k \in 1..n |-> frame.index[at(k)]],
       rows |-> [k \in 1..n |-> frame.rows[at(k)]]]

\* ------------------------------------------- 1. fighter career dataset
filter_fighter_fights(frame, fighter_name) ==
  BooleanIndex(frame,
    [i \in 1..Len(frame.rows) |->
       frame.rows[i]["fighter_1"] = Cell(fighter_name)
       \/ frame.rows[i]["fighter_2"] = Cell(fighter_name)])

extract_fighter_details(frame, fighter_name) ==
  LET is_fighter_1 ==
        Series(frame, [i \in 1..Len(frame.rows) |->
                         frame.rows[i]["fighter_1"] = Cell(fighter_name)])
      fighter_stats_row(row, name) ==
        [k \in DOMAIN FighterFields |->
           IF is_fighter_1[name] THEN row[FighterFields[k][1]]
           ELSE row[FighterFields[k][2]]]
  IN  ApplyExpand(frame,
        [i \in 1..Len(frame.rows) |->
           fighter_stats_row(frame.rows[i], frame.index[i])],
        DOMAIN FighterFields)

\* extract_opponent_details with the two branches of each conditional the way
\* extract_fighter_details has them: the fighter's own side is read.
extract_opponent_details_own_side(frame, fighter_name) ==
  LET is_fighter_1 ==
        Series(frame, [i \in 1..Len(frame.rows) |->
                         frame.rows[i]["fighter_1"] = Cell(fighter_name)])
      opponent_stats_row(row, name) ==
        [k \in DOMAIN OpponentFields |->
           IF is_fighter_1[name] THEN row[OpponentFields[k][1]]
           ELSE row[OpponentFields[k][2]]]
  IN  ApplyExpand(frame,
        [i \in 1..Len(frame.rows) |->
           opponent_stats_row(frame.rows[i], frame.index[i])],
        DOMAIN OpponentFields)

extract_opponent_details(frame, fighter_name) ==
  LET is_fighter_1 ==
        Series(frame, [i \in 1..Len(frame.rows) |->
                         frame.rows[i]["fighter_1"] = Cell(fighter_name)])
      opponent_stats_row(row, name) ==
        [k \in DOMAIN OpponentFields |->
           IF is_fighter_1[name] THEN row[OpponentFields[k][2]]
           ELSE row[OpponentFields[k][1]]]
  IN  ApplyExpand(frame,
        [i \in 1..Len(frame.rows) |->
           opponent_stats_row(frame.rows[i], frame.index[i])],
        DOMAIN OpponentFields)

reorganize_fight_data(frame, fighter_details, opponent_details) ==
  reset_index(ConcatColumns(SelectColumns(frame, SharedColumns),
                            fighter_details, opponent_details))

\* The columns create_diff_columns reads; a frame without one of them makes
\* the lookup raise KeyError.
DiffOperands ==
  {"height (m)", "opponent_height (m)", "reach (in)", "opponent_reach (in)",
   "age", "opponent_age"}

create_diff_columns(frame, rank) ==
  IF ~(DiffOperands \subseteq frame.columns)
  THEN [status |-> "KeyError", frame |-> EmptyFrame]
  ELSE
    LET n == Len(frame.rows)
        d1 == AssignColumn(frame, "height_diff",
                [i \in 1..n |-> Sub(frame.rows[i]["height (m)"],
                                    frame.rows[i]["opponent_height (m)"])])
        d2 == AssignColumn(d1, "reach_diff",
                [i \in 1..n |-> Sub(d1.rows[i]["reach (in)"],
                                    d1.rows[i]["opponent_reach (in)"])])
        d3 == AssignColumn(d2, "age_diff",
                [i \in 1..n |-> Sub(d2.rows[i]["age"],
                                    d2.rows[i]["opponent_age"])])
    IN  [status |-> "ok", frame |-> reset_index(sort_values(d3, rank))]

\* create_fighter_career_dataset answering from what the previous call left
\* behind: after a fighter_stats call it builds the career of that call's
\* fighter.
create_fighter_career_dataset_stale(frame, fighter_name, rank) ==
  LET who == IF ret.op = "fighter_stats" THEN ret.name ELSE fighter_name
      fighter_fights == filter_fighter_fights(frame, who)
      fighter_details == extract_fighter_details(fighter_fights, who)
      opponent_details == extract_opponent_details(fighter_fights, who)
      final_dataset == reorganize_fight_data(fighter_fights, fighter_details,
                                             opponent_details)
  IN  create_diff_columns(final_dataset, rank)

create_fighter_career_dataset(frame, fighter_name, rank) ==
  LET fighter_fights == filter_fighter_fights(frame, fighter_name)
      fighter_details == extract_fighter_details(fighter_fights, fighter_name)
      opponent_details == extract_opponent_details(fighter_fights, fighter_name)
      final_dataset == reorganize_fight_data(fighter_fights, fighter_details,
                                             opponent_details)
  IN  create_diff_columns(final_dataset, rank)

\* Series.sum() / .mean() / .median() skip missing values.
RECURSIVE SumCells(_)
SumCells(cells) ==
  IF Len(cells) = 0 THEN 0
  ELSE (IF isnull(Head(cells)) THEN 0 ELSE Head(cells)[1]) + SumCells(Tail(cells))

NotNull(cells) == SelectSeq(cells, LAMBDA c : ~isnull(c))

\* The mean as the fraction [num, den]; NaN over no values.
MeanCells(cells) ==
  LET v == NotNull(cells) IN
  IF Len(v) = 0 THEN NaN ELSE Cell([num |-> SumCells(v), den |-> Len(v)])

\* The median as the fraction [num, den]: the middle value, or half the sum
\* of the two middle values; NaN over no values.
MedianCells(cells) ==
  LET v == NotNull(cells)
      n == Len(v)
      place(i) == 1 + Cardinality({j \in 1..n :
                     v[j][1] < v[i][1] \/ (v[j][1] = v[i][1] /\ j < i)})
      at(k) == v[CHOOSE i \in 1..n : place(i) = k][1]
  IN  IF n = 0 THEN NaN
      ELSE IF n % 2 = 1 THEN Cell([num |-> at((n + 1) \div 2), den |-> 1])
      ELSE Cell([num |-> at(n \div 2) + at(n \div 2 + 1), den |-> 2])

ColumnCells(frame, name) == [i \in 1..Len(frame.rows) |-> frame.rows[i][name]]

NoStats ==
  [total |-> NaN, fights |-> NaN, mean |-> NaN, median |-> NaN]

\* fighter_stats: an exception of create_fighter_career_dataset propagates.
fighter_stats(frame, fighter_name, rank) ==
  LET career == create_fighter_career_dataset(frame, fighter_name, rank) IN
  IF career.status # "ok" THEN career @@ NoStats
  ELSE LET col == ColumnCells(career.frame, "opponent_sig_strikes_landed") IN
       career @@ [total |-> Cell(SumCells(col)),
                  fights |-> Cell(Len(career.frame.rows)),
                  mean |-> MeanCells(col),
                  median |-> MedianCells(col)]

\* ------------------------------- 2. championship and contendership datasets
\* filter_title_bouts without its test of is_title_bout.
filter_title_bouts_unfiltered(frame) ==
  BooleanIndex(frame, [i \in 1..Len(frame.rows) |-> TRUE])

filter_title_bouts(frame) ==
  BooleanIndex(frame,
    [i \in 1..Len(frame.rows) |-> frame.rows[i]["is_title_bout"] = Cell(2)])

determine_champion(row) ==
  IF row["is_champion_fighter_1"] = Cell(2) THEN row["fighter_1"]
  ELSE IF row["is_champion_fighter_2"] = Cell(2) THEN row["fighter_2"]
  ELSE NaN

\* determine_contender returning what determine_champion returns.
determine_contender_as_champion(row) ==
  IF row["is_champion_fighter_1"] = Cell(2) THEN row["fighter_1"]
  ELSE IF row["is_champion_fighter_2"] = Cell(2) THEN row["fighter_2"]
  ELSE NaN

determine_contender(row) ==
  IF row["is_champion_fighter_1"] = Cell(2) THEN row["fighter_2"]
  ELSE IF row["is_champion_fighter_2"] = Cell(2) THEN row["fighter_1"]
  ELSE NaN

\* res.frame[name] = res.frame.apply(f, axis=1), values holding f's result
\* for each row; res is the frame so far, or the exception already raised.
\* On a frame without rows apply probes f to see whether it reduces: a pandas
\* that finds it does returns an empty Series and the column is added; one
\* that does not returns a copy of the frame, and assigning a frame of
\* several columns to one column raises ValueError.
ApplyAssign(res, name, values, reduces) ==
  IF res.status # "ok" THEN res
  ELSE IF Len(res.frame.rows) = 0 /\ ~reduces
  THEN [status |-> "ValueError", frame |-> EmptyFrame]
  ELSE [status |-> "ok", frame |-> AssignColumn(res.frame, name, values)]

\* res.frame.loc[mask, name] = value, mask by position.
AssignWhere(res, mask, name, value) ==
  IF res.status # "ok" THEN res
  ELSE [status |-> "ok",
        frame |-> [res.frame EXCEPT !.rows =
          [i \in 1..Len(res.frame.rows) |->
             IF mask[i] THEN [res.frame.rows[i] EXCEPT ![name] = value]
             ELSE res.frame.rows[i]]]]

assign_champion_contender(title_bouts, reduces) ==
  LET s0 == [status |-> "ok", frame |-> title_bouts]
      s1 == ApplyAssign(s0, "champion",
              [i \in 1..Len(s0.frame.rows) |->
                 determine_champion(s0.frame.rows[i])], reduces)
      s2 == ApplyAssign(s1, "contender",
              [i \in 1..Len(s1.frame.rows) |->
                 determine_contender(s1.frame.rows[i])], reduces)
  IN  AssignWhere(s2,
        [i \in 1..Len(s2.frame.rows) |-> isnull(s2.frame.rows[i]["champion"])],
        "champion", Cell("Vacant"))

\* The lambdas of assign_champion_contender_stats: the champion's value is
\* looked up by comparing the champion label with fighter_1, then fighter_2;
\* the contender's by comparing the contender label with fighter_2, then
\* fighter_1; None when neither matches.
champion_stat(row, stat1, stat2) ==
  IF row["champion"] = row["fighter_1"] THEN row[stat1]
  ELSE IF row["champion"] = row["fighter_2"] THEN row[stat2]
  ELSE NaN

contender_stat(row, stat1, stat2) ==
  IF row["contender"] = row["fighter_2"] THEN row[stat2]
  ELSE IF row["contender"] = row["fighter_1"] THEN row[stat1]
  ELSE NaN

\* res.frame[name] = res.frame.apply(lambda row: ..., axis=1) for the
\* champion's statistic.
AssignChampionStat(res, name, stat1, stat2, reduces) ==
  ApplyAssign(res, name,
    [i \in 1..Len(res.frame.rows) |->
       champion_stat(res.frame.rows[i], stat1, stat2)], reduces)

AssignContenderStat(res, name, stat1, stat2, reduces) ==
  ApplyAssign(res, name,
    [i \in 1..Len(res.frame.rows) |->
       contender_stat(res.frame.rows[i], stat1, stat2)], reduces)

vacant_mask(res) ==
  [i \in 1..Len(res.frame.rows) |-> res.frame.rows[i]["champion"] = Cell("Vacant")]

assign_champion_contender_stats(labelled, reduces) ==
  LET age1 == "fight_day_age (yrs)_fighter_1"
      age2 == "fight_day_age (yrs)_fighter_2"
      wl1 == "W/L_streak_fighter_1"
      wl2 == "W/L_streak_fighter_2"
      res1 == "fight_result_fighter_1"
      res2 == "fight_result_fighter_2"
      s1 == AssignChampionStat(labelled, "champion_age", age1, age2, reduces)
      s2 == AssignChampionStat(s1, "champion_W/L_streak", wl1, wl2, reduces)
      s3 == AssignChampionStat(s2, "champion_result", res1, res2, reduces)
      s4 == AssignContenderStat(s3, "contender_age", age1, age2, reduces)
      s5 == AssignContenderStat(s4, "contender_W/L_streak", wl1, wl2, reduces)
      s6 == AssignContenderStat(s5, "contender_result", res1, res2, reduces)
      v1 == AssignWhere(s6, vacant_mask(s6), "champion_age", NaN)
      v2 == AssignWhere(v1, vacant_mask(v1), "champion_W/L_streak", NaN)
  IN  AssignWhere(v2, vacant_mask(v2), "champion_result", NaN)

TitleBoutColumns ==
  {"event_name", "event_date", "champion", "contender",
   "champion_age", "contender_age",
   "champion_W/L_streak", "contender_W/L_streak",
   "champion_result", "contender_result"}

select_title_bout_columns(title_bouts_dataset) ==
  SelectColumns(title_bouts_dataset, TitleBoutColumns)

\* filter_vacant_title_bouts with | for & between the two flag tests.
filter_vacant_title_bouts_either(frame) ==
  BooleanIndex(frame,
    [i \in 1..Len(frame.rows) |->
       /\ frame.rows[i]["is_title_bout"] = Cell(2)
       /\ \/ frame.rows[i]["is_champion_fighter_1"] # Cell(2)
          \/ frame.rows[i]["is_champion_fighter_2"] # Cell(2)])

filter_vacant_title_bouts(frame) ==
  BooleanIndex(frame,
    [i \in 1..Len(frame.rows) |->
       /\ frame.rows[i]["is_title_bout"] = Cell(2)
       /\ frame.rows[i]["is_champion_fighter_1"] # Cell(2)
       /\ frame.rows[i]["is_champion_fighter_2"] # Cell(2)])

\* The rename map with the two sides exchanged: side 1 becomes contender_b.
VacantRenameExchanged ==
  ("fighter_1" :> "contender_b") @@ ("fighter_2" :> "contender_a")
  @@ ("fight_day_age (yrs)_fighter_1" :> "contender_b_age")
  @@ ("fight_day_age (yrs)_fighter_2" :> "contender_a_age")
  @@ ("W/L_streak_fighter_1" :> "contender_b_W/L_streak")
  @@ ("W/L_streak_fighter_2" :> "contender_a_W/L_streak")
  @@ ("fight_result_fighter_1" :> "contender_b_result")
  @@ ("fight_result_fighter_2" :> "contender_a_result")

\* The rename map of assign_vacant_contenders: old name -> new name.
VacantRename ==
  ("fighter_1" :> "contender_a") @@ ("fighter_2" :> "contender_b")
  @@ ("fight_day_age (yrs)_fighter_1" :> "contender_a_age")
  @@ ("fight_day_age (yrs)_fighter_2" :> "contender_b_age")
  @@ ("W/L_streak_fighter_1" :> "contender_a_W/L_streak")
  @@ ("W/L_streak_fighter_2" :> "contender_b_W/L_streak")
  @@ ("fight_result_fighter_1" :> "contender_a_result")
  @@ ("fight_result_fighter_2" :> "contender_b_result")

\* frame.rename(columns=map)
RenameColumns(frame, map) ==
  LET new(c) == IF c \in DOMAIN map THEN map[c] ELSE c
      cols == {new(c) : c \in frame.columns}
      old(n) == CHOOSE c \in frame.columns : new(c) = n
  IN  [columns |-> cols,
       index |-> frame.index,
       rows |-> [i \in 1..Len(frame.rows) |->
                   [n \in cols |-> frame.rows[i][old(n)]]]]

assign_vacant_contenders(vacant_bouts_dataset) ==
  RenameColumns(vacant_bouts_dataset, VacantRename)

VacantColumns ==
  {"event_name", "event_date", "contender_a", "contender_b",
   "contender_a_age", "contender_b_age",
   "contender_a_W/L_streak", "contender_b_W/L_streak",
   "contender_a_result", "contender_b_result"}

select_vacant_columns(vacant_bouts_dataset) ==
  SelectColumns(vacant_bouts_dataset, VacantColumns)

create_title_bouts_datasets(frame, reduces) ==
  LET title_bouts == filter_title_bouts(frame)
      labelled == assign_champion_contender(title_bouts, reduces)
      withStats == assign_champion_contender_stats(labelled, reduces)
      vacant_bouts == assign_vacant_contenders(filter_vacant_title_bouts(frame))
  IN  IF withStats.status # "ok"
      THEN [status |-> withStats.status,
            champion_contender_dataset |-> EmptyFrame,
            vacant_bouts_dataset |-> EmptyFrame]
      ELSE [status |-> "ok",
            champion_contender_dataset |->
              select_title_bout_columns(withStats.frame),
            vacant_bouts_dataset |-> select_vacant_columns(vacant_bouts)]

\* ------------------------------------------------------------ source table
\* Fighter names in the table, and the names the operations are asked for
\* ("C" fights in no bout).
QueryNames == {"A", "C"}

\* Which fighters meet: a fighter on either side, and a bout whose two
\* identity columns hold the same name.
CareerPairs == {<<"A", "B">>, <<"B", "A">>, <<"A", "A">>}

TitlePairs == {<<"A", "B">>, <<"A", "A">>, <<"Vacant", "B">>, <<"A", "Vacant">>}

\* The statistic k of side s in bout i: every cell of the table holds its own
\* value, so a career row shows which bout and side each value came from.
StatValue(i, s, k) == Cell(100 * i + 10 * k + s)

\* A numeric statistic is missing on the side miss (0: on neither side).
NumStat(i, s, k, miss) == IF miss = s THEN NaN ELSE StatValue(i, s, k)

\* Bout i of the table.  The event is named after its date; fight_url is
\* unique to the bout.
Bout(i, pair, date, miss, title, champ1, champ2) ==
  [event_date |-> Cell(date),
   event_name |-> Cell(date),
   fight_url |-> Cell(i),
   is_title_bout |-> Cell(title),
   fighter_1 |-> Cell(pair[1]),
   fighter_2 |-> Cell(pair[2]),
   fight_result_fighter_1 |-> StatValue(i, 1, 1),
   fight_result_fighter_2 |-> StatValue(i, 2, 1),
   sig_strikes_landed_fighter_1 |-> NumStat(i, 1, 3, miss),
   sig_strikes_landed_fighter_2 |-> NumStat(i, 2, 3, miss),
   is_champion_fighter_1 |-> Cell(champ1),
   is_champion_fighter_2 |-> Cell(champ2)]
  @@ ("W/L_streak_fighter_1" :> StatValue(i, 1, 2))
  @@ ("W/L_streak_fighter_2" :> StatValue(i, 2, 2))
  @@ ("fight_day_age (yrs)_fighter_1" :> NumStat(i, 1, 4, miss))
  @@ ("fight_day_age (yrs)_fighter_2" :> NumStat(i, 2, 4, miss))
  @@ ("Height (m)_fighter_1" :> NumStat(i, 1, 5, miss))
  @@ ("Height (m)_fighter_2" :> NumStat(i, 2, 5, miss))
  @@ ("Reach (in)_fighter_1" :> NumStat(i, 1, 6, miss))
  @@ ("Reach (in)_fighter_2" :> NumStat(i, 2, 6, miss))

DataFrame(rows) ==
  [columns |-> InputColumns, index |-> RangeIndex(Len(rows)), rows |-> rows]

\* A table for the career operations: who meets whom and when vary from
\* bout to bout, the numeric statistics of at most one side of one bout are
\* missing, and no bout is a title bout.
CareerTable(n, pairs, dates, missAt) ==
  DataFrame([i \in 1..n |->
    Bout(i, pairs[i], dates[i], IF missAt[1] = i THEN missAt[2] ELSE 0, 0, 0, 0)])

\* A table for the title-bout classifier: the names, the title flag and the
\* two champion flags vary from bout to bout.
TitleTable(n, pairs, flags) ==
  DataFrame([i \in 1..n |->
    Bout(i, pairs[i], 1, 0, flags[i][1], flags[i][2], flags[i][3])])

\* Columns of a statistic the helpers' field lists do not name: a schema may
\* record it for both sides, for one side only, or not at all.
UnlistedColumns == {"new_stat_fighter_1", "new_stat_fighter_2"}

\* A career table whose schema has, next to the columns the helpers read, the
\* columns extra of the unlisted statistic (side s of bout i holds its own
\* value there too).
SchemaTable(n, pairs, extra) ==
  LET base == CareerTable(n, pairs, [i \in 1..n |-> 1], <<0, 0>>)
      unlisted(i) ==
        [c \in extra |->
           StatValue(i, IF c = "new_stat_fighter_1" THEN 1 ELSE 2, 7)]
  IN  [columns |-> base.columns \cup extra,
       index |-> base.index,
       rows |-> [i \in 1..n |-> base.rows[i] @@ unlisted(i)]]

\* -------------------------------------------------------------- the program
\* ret is what the last call returned (or raised).
NoCall ==
  [op |-> "none", name |-> "", status |-> "ok", frame |-> EmptyFrame,
   champion_contender_dataset |-> EmptyFrame,
   vacant_bouts_dataset |-> EmptyFrame] @@ NoStats

\* What the table holds after a frame taken from it was changed in place into
\* changed (columns added by assignment, columns renamed with inplace=True):
\* the filters return df[mask].copy() and the career frame comes out of
\* pd.concat, each an object of its own, so the change does not reach the
\* table.  source_after_inplace_shared is the outcome were the changed frame
\* the table itself.
source_after_inplace_shared(source, changed) == changed

source_after_inplace(source, changed) == source

\* kept is the career table a caller holds on to from an earlier
\* create_fighter_career_dataset call, with the operations called since.
NoKept == [result |-> NoCall, between |-> {}]

Called(op) ==
  IF kept.result.op = "none" THEN kept
  ELSE [kept EXCEPT !.between = @ \cup {op}]

Init ==
  /\ \E n \in 1..MaxBouts :
       /\ \E pairs \in [1..n -> CareerPairs], dates \in [1..n -> 1..MaxDate],
             missAt \in {<<0, 0>>} \cup ((1..n) \X {1, 2}) :
            df = CareerTable(n, pairs, dates, missAt)
       /\ tieRank \in Permutations(1..n)
  /\ ret = NoCall
  /\ kept = NoKept

InitTitle ==
  /\ \E n \in 1..MaxBouts :
       /\ \E pairs \in [1..n -> TitlePairs],
             flags \in [1..n -> {0, 2} \X {0, 2} \X {0, 2}] :
            df = TitleTable(n, pairs, flags)
       /\ tieRank = [i \in 1..n |-> i]
  /\ ret = NoCall
  /\ kept = NoKept

CreateFighterCareerDataset(fighter_name) ==
  /\ ret' = [op |-> "create_fighter_career_dataset", name |-> fighter_name]
            @@ create_fighter_career_dataset(df, fighter_name, tieRank)
            @@ NoCall
  /\ df' = source_after_inplace(df, ret'.frame)
  /\ kept' = Called("create_fighter_career_dataset")
  /\ UNCHANGED tieRank

FighterStats(fighter_name) ==
  /\ ret' = [op |-> "fighter_stats", name |-> fighter_name]
            @@ fighter_stats(df, fighter_name, tieRank)
            @@ NoCall
  /\ df' = source_after_inplace(df, ret'.frame)
  /\ kept' = Called("fighter_stats")
  /\ UNCHANGED tieRank

CreateTitleBoutsDatasets ==
  /\ \E reduces \in BOOLEAN :
       ret' = [op |-> "create_title_bouts_datasets"]
              @@ create_title_bouts_datasets(df, reduces)
              @@ NoCall
  /\ df' = source_after_inplace(df,
             assign_vacant_contenders(filter_vacant_title_bouts(df)))
  /\ kept' = Called("create_title_bouts_datasets")
  /\ UNCHANGED tieRank

Next ==
  \/ \E fighter_name \in QueryNames : CreateFighterCareerDataset(fighter_name)
  \/ \E fighter_name \in QueryNames : FighterStats(fighter_name)
  \/ CreateTitleBoutsDatasets

Spec == Init /\ [][Next]_vars

SpecTitle == InitTitle /\ [][Next]_vars

\* A caller that keeps the table create_fighter_career_dataset returned, goes
\* on calling, and later asks for the same career again.  Every bout is held
\* on the same day, so the order of the rows is the sort's to choose.
InitTwice ==
  /\ \E n \in 1..MaxBouts :
       /\ \E pairs \in [1..n -> CareerPairs] :
            df = CareerTable(n, pairs, [i \in 1..n |-> 1], <<0, 0>>)
       /\ tieRank \in Permutations(1..n)
  /\ ret = NoCall
  /\ kept = NoKept

KeepResult ==
  /\ ret.op = "create_fighter_career_dataset"
  /\ kept' = [result |-> ret, between |-> {}]
  /\ UNCHANGED <<df, tieRank, ret>>

NextKeep ==
  \/ Next
  \/ KeepResult

SpecTwice == InitTwice /\ [][NextKeep]_vars

\* The two reorientation helpers called on a table directly, as a caller of
\* the module may: the table then is not the output of filter_fighter_fights.
InitSchema ==
  /\ \E n \in 1..MaxBouts :
       /\ \E pairs \in [1..n -> CareerPairs], extra \in SUBSET UnlistedColumns :
            df = SchemaTable(n, pairs, extra)
       /\ tieRank = [i \in 1..n |-> i]
  /\ ret = NoCall
  /\ kept = NoKept

ExtractFighterDetails(fighter_name) ==
  /\ ret' = [op |-> "extract_fighter_details", name |-> fighter_name,
             frame |-> extract_fighter_details(df, fighter_name)]
            @@ NoCall
  /\ kept' = Called("extract_fighter_details")
  /\ UNCHANGED <<df, tieRank>>

ExtractOpponentDetails(fighter_name) ==
  /\ ret' = [op |-> "extract_opponent_details", name |-> fighter_name,
             frame |-> extract_opponent_details(df, fighter_name)]
            @@ NoCall
  /\ kept' = Called("extract_opponent_details")
  /\ UNCHANGED <<df, tieRank>>

NextHelpers ==
  \/ Next
  \/ \E fighter_name \in QueryNames : ExtractFighterDetails(fighter_name)
  \/ \E fighter_name \in QueryNames : ExtractOpponentDetails(fighter_name)

SpecSchema == InitSchema /\ [][NextHelpers]_vars

\* ================================================================== claims
\* What the claims speak of.
CareerCall == ret.op \in {"create_fighter_career_dataset", "fighter_stats"}

CareerOk == CareerCall /\ ret.status = "ok"

CareerRows == ret.frame.rows

\* The input bout a career row was built from: fight_url is the bout's key.
SourceBout(row) == df.rows[row["fight_url"][1]]

\* The side the fighter occupies in a bout (0: neither).
side_of(fighter_name, bout) ==
  IF bout["fighter_1"] = Cell(fighter_name) THEN 1
  ELSE IF bout["fighter_2"] = Cell(fighter_name) THEN 2
  ELSE 0

Appears(fighter_name) ==
  \E i \in 1..Len(df.rows) : side_of(fighter_name, df.rows[i]) # 0

\* The paired columns of the input schema: the subject field, the opponent
\* field, the side-1 column and the side-2 column of each.
PairedFields ==
  {<<"fighter", "opponent", "fighter_1", "fighter_2">>,
   <<"result", "opponent_result",
     "fight_result_fighter_1", "fight_result_fighter_2">>,
   <<"win_streak", "opponent_win_streak",
     "W/L_streak_fighter_1", "W/L_streak_fighter_2">>,
   <<"sig_strikes_landed", "opponent_sig_strikes_landed",
     "sig_strikes_landed_fighter_1", "sig_strikes_landed_fighter_2">>,
   <<"age", "opponent_age",
     "fight_day_age (yrs)_fighter_1", "fight_day_age (yrs)_fighter_2">>,
   <<"height (m)", "opponent_height (m)",
     "Height (m)_fighter_1", "Height (m)_fighter_2">>,
   <<"reach (in)", "opponent_reach (in)",
     "Reach (in)_fighter_1", "Reach (in)_fighter_2">>}

\* C1: in every career row, each reoriented subject field holds the value of
\* the column of the side the fighter occupies in the row's source bout, and
\* the matching opponent field the value of the other side's column.
C1_ReorientationRelabels ==
  CareerOk =>
    \A i \in 1..Len(CareerRows) :
      LET row == CareerRows[i]
          bout == SourceBout(row)
          side == side_of(ret.name, bout)
      IN  /\ side \in {1, 2}
          /\ \A p \in PairedFields :
               /\ row[p[1]] = bout[p[2 + side]]
               /\ row[p[2]] = bout[p[5 - side]]

\* A career with a bout fought from side 1 and a bout fought from side 2.
C1_Witness ==
  /\ CareerOk
  /\ \E i, j \in 1..Len(CareerRows) :
       /\ side_of(ret.name, SourceBout(CareerRows[i])) = 1
       /\ side_of(ret.name, SourceBout(CareerRows[j])) = 2

\* C2: every career row has fighter equal to the requested name and opponent
\* different from it.
C2_FighterNotOpponent ==
  CareerOk =>
    \A i \in 1..Len(CareerRows) :
      /\ CareerRows[i]["fighter"] = Cell(ret.name)
      /\ CareerRows[i]["opponent"] # Cell(ret.name)

TitleCall == ret.op = "create_title_bouts_datasets"

TitleOk == TitleCall /\ ret.status = "ok"

IsTitleBout(bout) == bout["is_title_bout"] = Cell(2)

Flagged(bout, s) ==
  IF s = 1 THEN bout["is_champion_fighter_1"] = Cell(2)
  ELSE bout["is_champion_fighter_2"] = Cell(2)

IsVacant(bout) == ~Flagged(bout, 1) /\ ~Flagged(bout, 2)

\* The rows an output holds for the input bout at position i, found by the
\* index label the outputs keep from the input table.
RowsOf(frame, i) ==
  {k \in 1..Len(frame.rows) : frame.index[k] = df.index[i]}

\* C3 as stated: every title bout has a row in exactly one output, a vacant
\* bout in the vacant output only and a bout with a flagged champion in the
\* champion/contender output only.
C3_ExactlyOneOutput ==
  TitleOk =>
    \A i \in 1..Len(df.rows) :
      IsTitleBout(df.rows[i]) =>
        IF IsVacant(df.rows[i])
        THEN /\ RowsOf(ret.vacant_bouts_dataset, i) # {}
             /\ RowsOf(ret.champion_contender_dataset, i) = {}
        ELSE /\ RowsOf(ret.champion_contender_dataset, i) # {}
             /\ RowsOf(ret.vacant_bouts_dataset, i) = {}

\* C3 as amended: a title bout with a flagged champion has one row in the
\* champion/contender output and none in the vacant output; a vacant title
\* bout has one row in the vacant output and also one row in the
\* champion/contender output.
C3_Routing ==
  TitleOk =>
    \A i \in 1..Len(df.rows) :
      IsTitleBout(df.rows[i]) =>
        /\ Cardinality(RowsOf(ret.champion_contender_dataset, i)) = 1
        /\ IF IsVacant(df.rows[i])
           THEN Cardinality(RowsOf(ret.vacant_bouts_dataset, i)) = 1
           ELSE RowsOf(ret.vacant_bouts_dataset, i) = {}

\* A classification of a table with a vacant title bout and a title bout with
\* a flagged champion.
C3_Witness ==
  /\ TitleOk
  /\ \E i, j \in 1..Len(df.rows) :
       /\ IsTitleBout(df.rows[i]) /\ IsVacant(df.rows[i])
       /\ IsTitleBout(df.rows[j]) /\ ~IsVacant(df.rows[j])

ConflictingChampionData(bout) ==
  IsTitleBout(bout) /\ Flagged(bout, 1) /\ Flagged(bout, 2)

\* C4: classifying a table with a title bout whose two champion flags are
\* both 2 fails with a ConflictingChampionData error.
C4_ConflictRaises ==
  (TitleCall /\ \E i \in 1..Len(df.rows) : ConflictingChampionData(df.rows[i]))
    => ret.status = "ConflictingChampionData"

\* C5: in every row of the champion/contender output the labels follow the
\* champion flags of the row's bout: side 1 flagged gives champion fighter_1
\* and contender fighter_2; otherwise side 2 flagged gives champion fighter_2
\* and contender fighter_1; neither flagged gives champion "Vacant".
C5_LabelsFollowFlags ==
  TitleOk =>
    \A i \in 1..Len(df.rows) :
      \A k \in RowsOf(ret.champion_contender_dataset, i) :
        LET row == ret.champion_contender_dataset.rows[k]
            bout == df.rows[i]
        IN  IF Flagged(bout, 1)
            THEN row["champion"] = bout["fighter_1"]
                 /\ row["contender"] = bout["fighter_2"]
            ELSE IF Flagged(bout, 2)
            THEN row["champion"] = bout["fighter_2"]
                 /\ row["contender"] = bout["fighter_1"]
            ELSE row["champion"] = Cell("Vacant")

\* A champion/contender output with a row of a bout flagged on side 2 only
\* and a row of a vacant bout.
C5_Witness ==
  /\ TitleOk
  /\ \E i, j \in 1..Len(df.rows) :
       /\ RowsOf(ret.champion_contender_dataset, i) # {}
       /\ ~Flagged(df.rows[i], 1) /\ Flagged(df.rows[i], 2)
       /\ RowsOf(ret.champion_contender_dataset, j) # {}
       /\ IsVacant(df.rows[j])

\* d is exactly a - b, and missing when a or b is.
IsDifference(d, a, b) ==
  IF isnull(a) \/ isnull(b) THEN isnull(d)
  ELSE ~isnull(d) /\ d[1] = a[1] - b[1]

\* C6: in every career row age_diff, height_diff and reach_diff are the
\* subject's value minus the opponent's, and missing when either is missing.
C6_DiffColumns ==
  CareerOk =>
    \A i \in 1..Len(CareerRows) :
      LET row == CareerRows[i]
      IN  /\ IsDifference(row["age_diff"], row["age"], row["opponent_age"])
          /\ IsDifference(row["height_diff"], row["height (m)"],
                          row["opponent_height (m)"])
          /\ IsDifference(row["reach_diff"], row["reach (in)"],
                          row["opponent_reach (in)"])

\* A career with a row whose subject age is missing, a row whose opponent
\* age is missing or a second row with both ages, and so a missing and a
\* computed difference.
C6_Witness ==
  /\ CareerOk
  /\ \E i, j \in 1..Len(CareerRows) :
       /\ isnull(CareerRows[i]["age"]) \/ isnull(CareerRows[i]["opponent_age"])
       /\ isnull(CareerRows[i]["age_diff"])
       /\ ~isnull(CareerRows[j]["age_diff"])
       /\ CareerRows[j]["age_diff"][1] # 0

\* C7: the career rows are ordered by event_date, non-increasing.
C7_SortedByDate ==
  CareerOk =>
    \A i \in 1..(Len(CareerRows) - 1) :
      CareerRows[i]["event_date"][1] >= CareerRows[i + 1]["event_date"][1]

\* A career whose first row is a later bout of the input table than its
\* second row, on a later date: the sort has moved it.
C7_Witness ==
  /\ CareerOk
  /\ Len(CareerRows) >= 2
  /\ CareerRows[1]["event_date"][1] > CareerRows[2]["event_date"][1]
  /\ CareerRows[1]["fight_url"][1] > CareerRows[2]["fight_url"][1]

\* C8: career rows of bouts with the same event_date keep the order the bouts
\* have in the input table.
C8_StableSort ==
  CareerOk =>
    \A i, j \in 1..Len(CareerRows) :
      (i < j /\ CareerRows[i]["event_date"] = CareerRows[j]["event_date"])
        => CareerRows[i]["fight_url"][1] < CareerRows[j]["fight_url"][1]

\* C9: for a name that fights in no bout, create_fighter_career_dataset
\* returns an empty table without raising, and fighter_stats returns it with
\* fight count 0, sum 0 and mean and median missing.
C9_UnknownFighterEmpty ==
  (CareerCall /\ ~Appears(ret.name)) =>
    /\ ret.status = "ok"
    /\ Len(ret.frame.rows) = 0
    /\ ret.op = "fighter_stats" =>
         /\ ret.fights = Cell(0)
         /\ ret.total = Cell(0)
         /\ isnull(ret.mean)
         /\ isnull(ret.median)

\* The columns of the input schema that exist in a side-1 and a side-2
\* variant, with the subject and opponent field each should become.
InputPairs ==
  PairedFields
  \cup {<<"is_champion", "opponent_is_champion",
          "is_champion_fighter_1", "is_champion_fighter_2">>}

\* C10: every column the input schema has in a side-1 and a side-2 variant is
\* present in the career rows as a subject field and as an opponent field.
C10_AllPairsReoriented ==
  CareerOk =>
    \A p \in InputPairs :
      (p[3] \in df.columns /\ p[4] \in df.columns)
        => (p[1] \in ret.frame.columns /\ p[2] \in ret.frame.columns)

\* ---------------------------------------------------------------- C11
\* The pairs of side columns a schema may hold: the ones the helpers name and
\* the unlisted statistic's.
SchemaPairs ==
  {<<p[3], p[4]>> : p \in InputPairs}
  \cup {<<"new_stat_fighter_1", "new_stat_fighter_2">>}

\* A paired base name is present for one side only.
UnpairedColumn(columns) ==
  \E p \in SchemaPairs : (p[1] \in columns) # (p[2] \in columns)

\* C11: when the schema of the table holds a paired base name for one side
\* only, building a career dataset does not return normally: the fault
\* reaches the caller, the field is not silently dropped.
C11_UnpairedColumnSurfaces ==
  (ret.op = "create_fighter_career_dataset" /\ UnpairedColumn(df.columns))
    => ret.status # "ok"

\* ---------------------------------------------------------------- C12
HelperCall == ret.op \in {"extract_fighter_details", "extract_opponent_details"}

\* C12: a reorientation helper asked for a fighter who is on neither side of
\* some row of its table reports a fatal error; it does not return rows
\* oriented as if the fighter were on one of the sides.
C12_UnresolvedIsFatal ==
  (HelperCall /\ \E i \in 1..Len(df.rows) : side_of(ret.name, df.rows[i]) = 0)
    => ret.status # "ok"

\* ---------------------------------------------------------------- C13
\* C13: when opponent_sig_strikes_landed is missing in some row of the
\* fighter's career, the total and the mean fighter_stats reports are
\* missing.
C13_MissingPropagates ==
  (/\ ret.op = "fighter_stats"
   /\ ret.status = "ok"
   /\ \E i \in 1..Len(CareerRows) :
        isnull(CareerRows[i]["opponent_sig_strikes_landed"]))
    => isnull(ret.total) /\ isnull(ret.mean)

Strays(frame) ==
  {k \in 1..Len(frame.rows) :
     \A i \in 1..Len(df.rows) : frame.index[k] # df.index[i]}

\* C16: the two outputs of create_title_bouts_datasets hold rows of title
\* bouts (is_title_bout = 2) only: a bout with another is_title_bout value
\* has a row in neither output, every title bout has a row in at least one
\* of them, and no row comes from anywhere else.
C16_OnlyTitleBouts ==
  TitleOk =>
    /\ Strays(ret.champion_contender_dataset) = {}
    /\ Strays(ret.vacant_bouts_dataset) = {}
    /\ \A i \in 1..Len(df.rows) :
         IF IsTitleBout(df.rows[i])
         THEN RowsOf(ret.champion_contender_dataset, i)
                \cup RowsOf(ret.vacant_bouts_dataset, i) # {}
         ELSE /\ RowsOf(ret.champion_contender_dataset, i) = {}
              /\ RowsOf(ret.vacant_bouts_dataset, i) = {}

\* A classification of a table with a title bout and a bout that is none,
\* the latter with no champion flagged (were it a title bout, it would be a
\* vacant one).
C16_Witness ==
  /\ TitleOk
  /\ \E i, j \in 1..Len(df.rows) :
       /\ IsTitleBout(df.rows[i])
       /\ ~IsTitleBout(df.rows[j]) /\ IsVacant(df.rows[j])

\* ---------------------------------------------------------------- C17
\* C17: the row the vacant output holds for a vacant title bout has
\* contender_a = fighter_1 and contender_b = fighter_2, the age, streak and
\* result of contender_a from the bout's side-1 columns and those of
\* contender_b from its side-2 columns.
C17_VacantContenders ==
  TitleOk =>
    \A i \in 1..Len(df.rows) :
      (IsTitleBout(df.rows[i]) /\ IsVacant(df.rows[i])) =>
        /\ RowsOf(ret.vacant_bouts_dataset, i) # {}
        /\ \A k \in RowsOf(ret.vacant_bouts_dataset, i) :
             LET row == ret.vacant_bouts_dataset.rows[k]
                 bout == df.rows[i]
             IN  /\ row["contender_a"] = bout["fighter_1"]
                 /\ row["contender_b"] = bout["fighter_2"]
                 /\ row["contender_a_age"] = bout["fight_day_age (yrs)_fighter_1"]
                 /\ row["contender_b_age"] = bout["fight_day_age (yrs)_fighter_2"]
                 /\ row["contender_a_W/L_streak"] = bout["W/L_streak_fighter_1"]
                 /\ row["contender_b_W/L_streak"] = bout["W/L_streak_fighter_2"]
                 /\ row["contender_a_result"] = bout["fight_result_fighter_1"]
                 /\ row["contender_b_result"] = bout["fight_result_fighter_2"]

\* A vacant output with the rows of two vacant title bouts, one of them
\* between two fighters of the same name.
C17_Witness ==
  /\ TitleOk
  /\ Len(ret.vacant_bouts_dataset.rows) >= 2
  /\ \E k \in 1..Len(ret.vacant_bouts_dataset.rows) :
       ret.vacant_bouts_dataset.rows[k]["contender_a"]
         = ret.vacant_bouts_dataset.rows[k]["contender_b"]

\* ---------------------------------------------------------------- C18
\* The age, streak and result a title row reports for who (champion or
\* contender) are those of side s of the bout.
StatsOfSide(row, who, bout, s) ==
  IF s = 1
  THEN /\ row[who \o "_age"] = bout["fight_day_age (yrs)_fighter_1"]
       /\ row[who \o "_W/L_streak"] = bout["W/L_streak_fighter_1"]
       /\ row[who \o "_result"] = bout["fight_result_fighter_1"]
  ELSE /\ row[who \o "_age"] = bout["fight_day_age (yrs)_fighter_2"]
       /\ row[who \o "_W/L_streak"] = bout["W/L_streak_fighter_2"]
       /\ row[who \o "_result"] = bout["fight_result_fighter_2"]

ChampionStatsMissing(row) ==
  /\ isnull(row["champion_age"])
  /\ isnull(row["champion_W/L_streak"])
  /\ isnull(row["champion_result"])

\* C18: in the champion/contender output the row of a title bout with
\* exactly one side flagged champion has the flagged side's age, streak and
\* result as the champion's and the other side's as the contender's,
\* whatever the fighters are called; and a row's champion statistics are
\* missing exactly when neither side of its bout is flagged.
C18_StatsFollowFlags ==
  TitleOk =>
    \A i \in 1..Len(df.rows) :
      \A k \in RowsOf(ret.champion_contender_dataset, i) :
        LET row == ret.champion_contender_dataset.rows[k]
            bout == df.rows[i]
        IN  /\ (Flagged(bout, 1) /\ ~Flagged(bout, 2)) =>
                 /\ StatsOfSide(row, "champion", bout, 1)
                 /\ StatsOfSide(row, "contender", bout, 2)
            /\ (Flagged(bout, 2) /\ ~Flagged(bout, 1)) =>
                 /\ StatsOfSide(row, "champion", bout, 2)
                 /\ StatsOfSide(row, "contender", bout, 1)
            /\ ChampionStatsMissing(row) <=> IsVacant(bout)

\* ---------------------------------------------------------------- C19
\* The career rows built from the input bout at position i.
CareerRowsOf(i) ==
  {k \in 1..Len(CareerRows) : CareerRows[k]["fight_url"] = df.rows[i]["fight_url"]}

\* C19: create_fighter_career_dataset returns a table with one row for each
\* input bout that has the fighter on either side and none for any other
\* bout: as many rows as there are such bouts, none dropped, none twice.
C19_OneRowPerBout ==
  ret.op = "create_fighter_career_dataset" =>
    /\ ret.status = "ok"
    /\ Len(CareerRows)
         = Cardinality({i \in 1..Len(df.rows) : side_of(ret.name, df.rows[i]) # 0})
    /\ \A i \in 1..Len(df.rows) :
         Cardinality(CareerRowsOf(i))
           = IF side_of(ret.name, df.rows[i]) # 0 THEN 1 ELSE 0

\* ---------------------------------------------------------------- C20
\* The position in the table of the bout a statistic was read from: every
\* statistic of the table carries its bout (StatValue).
BoutOfStat(cell) == cell[1] \div 100

\* C20: in every career row the subject's and the opponent's fields come
\* from one and the same input bout, and the row's shared fields are the
\* unchanged values of that bout.
C20_SharedFieldsOfSameBout ==
  CareerOk =>
    \A i \in 1..Len(CareerRows) :
      LET row == CareerRows[i]
          b == BoutOfStat(row["result"])
      IN  /\ b \in 1..Len(df.rows)
          /\ BoutOfStat(row["opponent_result"]) = b
          /\ BoutOfStat(row["win_streak"]) = b
          /\ BoutOfStat(row["opponent_win_streak"]) = b
          /\ \A c \in SharedColumns : row[c] = df.rows[b][c]

\* A career of two bouts on different dates, fought from different sides,
\* whose rows stand in the reverse of the table's order.
C20_Witness ==
  /\ CareerOk
  /\ Len(CareerRows) = 2
  /\ CareerRows[1]["event_date"] # CareerRows[2]["event_date"]
  /\ BoutOfStat(CareerRows[1]["result"]) = 2
  /\ BoutOfStat(CareerRows[2]["result"]) = 1
  /\ side_of(ret.name, df.rows[1]) # side_of(ret.name, df.rows[2])

====
